---- MODULE Spec2Model ----
(***************************************************************************)
(* Nelder-Mead simplex minimisation (nelder-mead.rs): the public entry     *)
(* points minimize / maximize (lib.rs), the simplex engine (simplex.rs),   *)
(* the vector algebra (algebra.rs) and the bounds (bounds.rs).             *)
(*                                                                         *)
(* Numbers.  The program computes in f64.  The model computes on the       *)
(* dyadic grid of multiples of 1/Scale: a coordinate c of the model is the *)
(* f64 c/Scale.  Every input is a multiple of Scale/2, the parameters are  *)
(* multiples of 1/2 and the simplex has one or two dimensions, so that     *)
(* every sum, difference, product and division the program performs within *)
(* MaxIter iterations has an exactly representable result: on these inputs *)
(* f64 arithmetic does not round and the grid arithmetic below is the      *)
(* program's arithmetic.  ArithmeticExact states that no division of the   *)
(* model ever leaves a remainder.                                          *)
(***************************************************************************)
EXTENDS Integers, Sequences, FiniteSets, Bags, TLC

\* Largest max_iter the model runs.
MaxIter == 3

\* Grid units per 1.0: a step uses at most two binary digits (centroid of two
\* points, then rho or delta of 1/2), the final centroid one more.
Scale == 2 * (4 ^ MaxIter)

\* std::f64::MAX, as the largest number of the model's arithmetic;
\* std::f64::MIN is its negation.
F64_MAX == 2147483647

VARIABLES
    entry,            \* "minimize" | "maximize": the lib.rs entry point called
    f,                \* the caller's objective (a name of Objectives)
    params,           \* Params {alpha, gamma, rho, delta}, each <<num, den>>
    bounds,           \* Bounds {min, max}
    max_iter,         \* u32
    initial_simplex,  \* simplex::minimize's argument
    curr_simplex,     \* simplex::minimize's loop variable
    i,                \* number of loop iterations of `for _ in 0..max_iter` done
    pc,               \* "loop" | "done"
    minimized,        \* what simplex::minimize returned, <<>> before it returns
    result,           \* what the entry point returned, <<>> before it returns
    prev_simplex,     \* the `simplex` argument of the latest step call
    branch,           \* the branch the latest step took ("new_simplex" before any)
    accepted,         \* the point the latest step handed to add_point (<<>>: none)
    evaluated         \* the points the latest operation applied the objective to

vars == <<entry, f, params, bounds, max_iter, initial_simplex, curr_simplex, i,
          pc, minimized, result, prev_simplex, branch, accepted, evaluated>>

(***************************************************************************)
(* algebra.rs                                                              *)
(***************************************************************************)
MinLen(p1, p2) == IF Len(p1) <= Len(p2) THEN Len(p1) ELSE Len(p2)

sum(p1, p2) == [j \in 1..MinLen(p1, p2) |-> p1[j] + p2[j]]

diff(p1, p2) == [j \in 1..MinLen(p1, p2) |-> p1[j] - p2[j]]

\* k is the scalar num/den, as <<num, den>>.
mult(k, p) == [j \in 1..Len(p) |-> (k[1] * p[j]) \div k[2]]

RECURSIVE FoldSum(_, _, _)
FoldSum(ps, k, acc) ==
    IF k > Len(ps) THEN acc ELSE FoldSum(ps, k + 1, sum(acc, ps[k]))

avg(ps) == mult(<<1, Len(ps)>>, FoldSum(ps, 2, ps[1]))

(***************************************************************************)
(* bounds.rs                                                               *)
(***************************************************************************)
none(n) == [min |-> [j \in 1..n |-> -F64_MAX], max |-> [j \in 1..n |-> F64_MAX]]

as_vec(b) == [j \in 1..MinLen(b.min, b.max) |-> <<b.min[j], b.max[j]>>]

\* clamp is called by simplex.rs and defined in none of the source files: it
\* clips each coordinate into [min, max] (spec 4.2).
clamp(p, bounds_vec) ==
    [j \in 1..MinLen(p, bounds_vec) |->
        IF p[j] < bounds_vec[j][1] THEN bounds_vec[j][1]
        ELSE IF p[j] > bounds_vec[j][2] THEN bounds_vec[j][2]
        ELSE p[j]]

(***************************************************************************)
(* params.rs                                                               *)
(***************************************************************************)
default == [alpha |-> <<1, 1>>, gamma |-> <<2, 1>>, rho |-> <<1, 2>>, delta |-> <<1, 2>>]

(***************************************************************************)
(* The caller's objectives.  F(fn, p) is fn at the point p, exactly, in    *)
(* units of 1/Scale ("linear", "ripple") or 1/Scale^2 ("shifted").         *)
(***************************************************************************)
Abs(x) == IF x < 0 THEN 0 - x ELSE x

RECURSIVE SumCoords(_, _)
SumCoords(p, k) == IF k > Len(p) THEN 0 ELSE p[k] + SumCoords(p, k + 1)

RECURSIVE SumSquares(_, _)
SumSquares(p, k) == IF k > Len(p) THEN 0 ELSE p[k] * p[k] + SumSquares(p, k + 1)

\* The sum over the coordinates x of 4 * | |x - 2.5| - 1 | + x.
RECURSIVE SumRipples(_, _)
SumRipples(p, k) ==
    IF k > Len(p) THEN 0
    ELSE 4 * Abs(Abs(p[k] - (5 * Scale) \div 2) - Scale) + p[k] + SumRipples(p, k + 1)

\* "linear" is x + y + 5 (simplex.rs, minimize_with_bounds), "shifted" is
\* (x + 1)^2 + y^2 (the examples of lib.rs), "ripple" is a function that is
\* neither convex nor concave; "neg_" names the negation of a function.
F(fn, p) ==
    CASE fn = "linear"      -> SumCoords(p, 1) + 5 * Scale
      [] fn = "shifted"     -> (p[1] + Scale) * (p[1] + Scale) + SumSquares(p, 2)
      [] fn = "ripple"      -> SumRipples(p, 1)
      [] fn = "neg_linear"  -> 0 - SumCoords(p, 1) - 5 * Scale
      [] fn = "neg_shifted" -> 0 - (p[1] + Scale) * (p[1] + Scale) - SumSquares(p, 2)
      [] fn = "neg_ripple"  -> 0 - SumRipples(p, 1)

\* The objectives of the runs.
Objectives == {"linear", "shifted", "ripple"}

\* The closure g of maximize: |x| -1.0 * f(x).
NegatedObjective(fn, p) == (-1) * F(fn, p)

\* The Function the entry point hands to new_simplex and simplex::minimize.
Objective(e, fn, p) == IF e = "maximize" THEN NegatedObjective(fn, p) ELSE F(fn, p)

(***************************************************************************)
(* simplex.rs                                                              *)
(***************************************************************************)
\* A vertex is <<point, value>>; a simplex is a sequence of vertices.

\* Where a stable sort puts v among the sorted vertices s: after every vertex
\* whose value is not greater.
RECURSIVE InsertSorted(_, _)
InsertSorted(s, v) ==
    IF s = <<>> THEN <<v>>
    ELSE IF s[Len(s)][2] <= v[2] THEN Append(s, v)
    ELSE Append(InsertSorted(SubSeq(s, 1, Len(s) - 1), v), s[Len(s)])

RECURSIVE SortFrom(_, _, _)
SortFrom(s, k, acc) ==
    IF k > Len(s) THEN acc ELSE SortFrom(s, k + 1, InsertSorted(acc, s[k]))

\* slice::sort_by is a stable sort.
sort_simplex(simplex) == SortFrom(simplex, 1, <<>>)

\* add_point truncating at the front: it drops the best vertex, not the worst.
add_point_drops_best(e, fn, simplex, point) ==
    LET pushed == Append(simplex, <<point, Objective(e, fn, point)>>)
        sorted == sort_simplex(pushed)
    IN  SubSeq(sorted, 2, Len(sorted))

add_point(e, fn, simplex, point) ==
    LET pushed == Append(simplex, <<point, Objective(e, fn, point)>>)
        sorted == sort_simplex(pushed)
    IN  SubSeq(sorted, 1, Len(sorted) - 1)

Points(simplex) == [k \in 1..Len(simplex) |-> simplex[k][1]]

\* x0: the centroid of simplex[0..n].
Centroid(simplex) == avg(SubSeq(Points(simplex), 1, Len(simplex) - 1))

Reflected(simplex, p, bounds_vec) ==
    LET x0  == Centroid(simplex)
        xn1 == simplex[Len(simplex)][1]
    IN  clamp(sum(x0, mult(p.alpha, diff(x0, xn1))), bounds_vec)

Expanded(simplex, p, bounds_vec) ==
    LET x0 == Centroid(simplex)
        xr == Reflected(simplex, p, bounds_vec)
    IN  clamp(sum(x0, mult(p.gamma, diff(xr, x0))), bounds_vec)

Contracted(simplex, p, bounds_vec) ==
    LET x0  == Centroid(simplex)
        xn1 == simplex[Len(simplex)][1]
    IN  clamp(sum(x0, mult(p.rho, diff(xn1, x0))), bounds_vec)

\* Branch with the expansion test tried before the reflection test.
BranchExpansionFirst(e, fn, simplex, p, bounds_vec) ==
    LET n    == Len(simplex) - 1
        fx1  == simplex[1][2]
        fxn  == simplex[n][2]
        fxn1 == simplex[n + 1][2]
        fxr  == Objective(e, fn, Reflected(simplex, p, bounds_vec))
        fxe  == Objective(e, fn, Expanded(simplex, p, bounds_vec))
        fxc  == Objective(e, fn, Contracted(simplex, p, bounds_vec))
    IN  IF fxe < fxn1 THEN "expansion"
        ELSE IF fx1 <= fxr /\ fxr < fxn THEN "reflection"
        ELSE IF fxc < fxn1 THEN "contraction"
        ELSE "shrink"

\* Branch with the contraction test fxc <= fxn1 in place of fxc < fxn1.
BranchContractionNotStrict(e, fn, simplex, p, bounds_vec) ==
    LET n    == Len(simplex) - 1
        fx1  == simplex[1][2]
        fxn  == simplex[n][2]
        fxn1 == simplex[n + 1][2]
        fxr  == Objective(e, fn, Reflected(simplex, p, bounds_vec))
        fxe  == Objective(e, fn, Expanded(simplex, p, bounds_vec))
        fxc  == Objective(e, fn, Contracted(simplex, p, bounds_vec))
    IN  IF fx1 <= fxr /\ fxr < fxn THEN "reflection"
        ELSE IF fxe < fxn1 THEN "expansion"
        ELSE IF fxc <= fxn1 THEN "contraction"
        ELSE "shrink"

\* The if / else if chain of step: the branch taken.
Branch(e, fn, simplex, p, bounds_vec) ==
    LET n    == Len(simplex) - 1
        fx1  == simplex[1][2]
        fxn  == simplex[n][2]
        fxn1 == simplex[n + 1][2]
        fxr  == Objective(e, fn, Reflected(simplex, p, bounds_vec))
        fxe  == Objective(e, fn, Expanded(simplex, p, bounds_vec))
        fxc  == Objective(e, fn, Contracted(simplex, p, bounds_vec))
    IN  IF fx1 <= fxr /\ fxr < fxn THEN "reflection"
        ELSE IF fxe < fxn1 THEN "expansion"
        ELSE IF fxc < fxn1 THEN "contraction"
        ELSE "shrink"

\* The point the expansion branch hands to add_point.
ExpansionPoint(e, fn, simplex, p, bounds_vec) ==
    LET xr == Reflected(simplex, p, bounds_vec)
        xe == Expanded(simplex, p, bounds_vec)
    IN  IF Objective(e, fn, xe) < Objective(e, fn, xr) THEN xe ELSE xr

\* ShrinkPoints with rho in place of delta.
ShrinkPointsByRho(simplex, p) ==
    LET x1 == simplex[1][1]
    IN  [k \in 1..(Len(simplex) - 1) |->
            sum(x1, mult(p.rho, diff(simplex[k + 1][1], x1)))]

\* ShrinkPoints moving each vertex away from the best one: xi + delta * (xi - x1).
ShrinkPointsAway(simplex, p) ==
    LET x1 == simplex[1][1]
    IN  [k \in 1..(Len(simplex) - 1) |->
            sum(simplex[k + 1][1], mult(p.delta, diff(simplex[k + 1][1], x1)))]

\* The points the shrink branch computes, in the order of simplex.iter().skip(1).
ShrinkPoints(simplex, p) ==
    LET x1 == simplex[1][1]
    IN  [k \in 1..(Len(simplex) - 1) |->
            sum(x1, mult(p.delta, diff(simplex[k + 1][1], x1)))]

\* ShrinkSimplex without the sort_simplex call that ends it.
ShrinkSimplexUnsorted(e, fn, simplex, p) ==
    LET pts        == ShrinkPoints(simplex, p)
        new_points == [k \in 1..Len(pts) |-> <<pts[k], Objective(e, fn, pts[k])>>]
    IN  Append(new_points, simplex[1])

ShrinkSimplex(e, fn, simplex, p) ==
    LET pts        == ShrinkPoints(simplex, p)
        new_points == [k \in 1..Len(pts) |-> <<pts[k], Objective(e, fn, pts[k])>>]
    IN  sort_simplex(Append(new_points, simplex[1]))

\* The point step hands to add_point (<<>> in the shrink branch).
Accepted(e, fn, simplex, p, bounds_vec) ==
    LET b == Branch(e, fn, simplex, p, bounds_vec)
    IN  CASE b = "reflection"  -> Reflected(simplex, p, bounds_vec)
          [] b = "expansion"   -> ExpansionPoint(e, fn, simplex, p, bounds_vec)
          [] b = "contraction" -> Contracted(simplex, p, bounds_vec)
          [] b = "shrink"      -> <<>>

step(e, fn, simplex, p, bounds_vec) ==
    IF Branch(e, fn, simplex, p, bounds_vec) = "shrink"
    THEN ShrinkSimplex(e, fn, simplex, p)
    ELSE add_point(e, fn, simplex, Accepted(e, fn, simplex, p, bounds_vec))

\* The points step applies the objective to.
StepEvaluates(e, fn, simplex, p, bounds_vec) ==
    {Reflected(simplex, p, bounds_vec), Expanded(simplex, p, bounds_vec),
     Contracted(simplex, p, bounds_vec)}
    \cup (IF Branch(e, fn, simplex, p, bounds_vec) = "shrink"
          THEN {ShrinkPoints(simplex, p)[k] : k \in 1..(Len(simplex) - 1)}
          ELSE {})

\* The loop with a convergence test: it stops once a step leaves the simplex
\* as it was.
LoopContinuesUntilConverged == i < max_iter /\ (i = 0 \/ curr_simplex # prev_simplex)

\* `for _ in 0..max_iter`: the loop runs another iteration.
LoopContinues == i < max_iter

\* minimize_result with fx1 <= fx0 in place of fx1 < fx0.
minimize_result_vertex_on_tie(e, fn, simplex) ==
    LET x1  == simplex[1][1]
        fx1 == simplex[1][2]
        x0  == Centroid(simplex)
        fx0 == Objective(e, fn, x0)
    IN  IF fx1 <= fx0 THEN <<x1, fx1>> ELSE <<x0, fx0>>

\* What simplex::minimize returns for the final simplex.
minimize_result(e, fn, simplex) ==
    LET x1  == simplex[1][1]
        fx1 == simplex[1][2]
        x0  == Centroid(simplex)
        fx0 == Objective(e, fn, x0)
    IN  IF fx1 < fx0 THEN <<x1, fx1>> ELSE <<x0, fx0>>

\* new_simplex, with the rng's draws given: draws[k][j] is the perturbation
\* of coordinate j of point k.
new_simplex(e, fn, center, draws) ==
    LET unsorted_points == [k \in 1..(Len(center) + 1) |->
                               [j \in 1..Len(center) |-> center[j] + draws[k][j]]]
    IN  sort_simplex([k \in 1..Len(unsorted_points) |->
                         <<unsorted_points[k], Objective(e, fn, unsorted_points[k])>>])

(***************************************************************************)
(* lib.rs                                                                  *)
(***************************************************************************)
\* entry_result with the value of maximize left negated.
entry_result_not_negated_back(e, ret) == ret

\* What the entry point returns, given what simplex::minimize returned.
entry_result(e, ret) == IF e = "maximize" THEN <<ret[1], (-1) * ret[2]>> ELSE ret

(***************************************************************************)
(* The inputs.                                                             *)
(***************************************************************************)
\* The dimensions N of the runs.
Dims == {1, 2}

\* initial_point: (2.0, ..., 2.0), as in the tests of simplex.rs.
InitialPoint(n) == [j \in 1..n |-> 2 * Scale]

\* The draws of rng.gen_range(-step, step) the model takes, for a step > 1.0.
Draws == {-Scale, Scale}

\* A box [lo/2, hi/2]^n.
Box(n, lo, hi) == [min |-> [j \in 1..n |-> (lo * Scale) \div 2],
                   max |-> [j \in 1..n |-> (hi * Scale) \div 2]]

BoundsChoices(n) == {none(n), Box(n, 0, 8), Box(n, 3, 10)}

ParamsChoices == {default,
                  [default EXCEPT !.delta = <<1, 1>>],
                  [default EXCEPT !.delta = <<2, 1>>]}

\* The runs the model leaves out: a quadratic that is unbounded below, minimised
\* without bounds, runs away, and its values leave the integers of the model
\* within a few iterations.
RunsAway(e, fn, b) ==
    /\ b = none(Len(b.min))
    /\ e = "maximize"
    /\ fn = "shifted"

Init ==
    \E n \in Dims :
    \E e \in {"minimize", "maximize"}, fn \in Objectives, p \in ParamsChoices,
       b \in BoundsChoices(n), m \in 0..MaxIter,
       draws \in [1..(n + 1) -> [1..n -> Draws]] :
        /\ ~RunsAway(e, fn, b)
        /\ entry = e
        /\ f = fn
        /\ params = p
        /\ bounds = b
        /\ max_iter = m
        /\ initial_simplex = new_simplex(e, fn, InitialPoint(n), draws)
        /\ curr_simplex = initial_simplex
        /\ i = 0
        /\ pc = "loop"
        /\ minimized = <<>>
        /\ result = <<>>
        /\ prev_simplex = initial_simplex
        /\ branch = "new_simplex"
        /\ accepted = <<>>
        /\ evaluated = {initial_simplex[k][1] : k \in 1..(n + 1)}

\* One iteration of the loop of simplex::minimize: curr_simplex = step(...).
TakeStep ==
    /\ pc = "loop"
    /\ LoopContinues
    /\ curr_simplex' = step(entry, f, curr_simplex, params, as_vec(bounds))
    /\ prev_simplex' = curr_simplex
    /\ branch' = Branch(entry, f, curr_simplex, params, as_vec(bounds))
    /\ accepted' = Accepted(entry, f, curr_simplex, params, as_vec(bounds))
    /\ evaluated' = StepEvaluates(entry, f, curr_simplex, params, as_vec(bounds))
    /\ i' = i + 1
    /\ UNCHANGED <<entry, f, params, bounds, max_iter, initial_simplex, pc,
                   minimized, result>>

\* The iteration, by the branch step takes.
Reflection ==
    /\ Branch(entry, f, curr_simplex, params, as_vec(bounds)) = "reflection"
    /\ TakeStep

Expansion ==
    /\ Branch(entry, f, curr_simplex, params, as_vec(bounds)) = "expansion"
    /\ TakeStep

Contraction ==
    /\ Branch(entry, f, curr_simplex, params, as_vec(bounds)) = "contraction"
    /\ TakeStep

Shrink ==
    /\ Branch(entry, f, curr_simplex, params, as_vec(bounds)) = "shrink"
    /\ TakeStep

\* The loop is over: simplex::minimize returns and the entry point returns.
Return ==
    /\ pc = "loop"
    /\ ~LoopContinues
    /\ minimized' = minimize_result(entry, f, curr_simplex)
    /\ result' = entry_result(entry, minimized')
    /\ evaluated' = {Centroid(curr_simplex)}
    /\ pc' = "done"
    /\ UNCHANGED <<entry, f, params, bounds, max_iter, initial_simplex,
                   curr_simplex, i, prev_simplex, branch, accepted>>

Next == Reflection \/ Expansion \/ Contraction \/ Shrink \/ Return

Spec == Init /\ [][Next]_vars

(***************************************************************************)
(* The properties.                                                         *)
(***************************************************************************)
Done == pc = "done"

Stepped == branch # "new_simplex"

WithinBounds(p, b) == \A j \in 1..Len(p) : b.min[j] <= p[j] /\ p[j] <= b.max[j]

WellFormed(b) == \A j \in 1..Len(b.min) : b.min[j] <= b.max[j]

\* The vertices of a simplex, with their multiplicities.
Vertices(simplex) ==
    LET vs == {simplex[k] : k \in 1..Len(simplex)}
    IN  [v \in vs |-> Cardinality({k \in 1..Len(simplex) : simplex[k] = v})]

\* C1: the point the entry point returns lies within the bounds, in every
\* dimension, whatever the objective, the initial point and max_iter.
C1_ResultWithinBounds ==
    (Done /\ WellFormed(bounds)) => WithinBounds(result[1], bounds)

\* C2: the loop terminates, having applied step exactly max_iter times,
\* whatever the simplex and the branch: every transition is either an iteration,
\* taken with i < max_iter and counted in i, or the return, taken with
\* i = max_iter, and one of the two can be taken in every state before the
\* return; with max_iter = 0 no step is applied and the result is that of the
\* initial simplex.
C2_StepsExactlyMaxIter ==
    /\ [](/\ pc \in {"loop", "done"}
          /\ i <= max_iter
          /\ Stepped <=> i > 0
          /\ Done => /\ i = max_iter
                     /\ max_iter = 0 =>
                           /\ curr_simplex = initial_simplex
                           /\ minimized \in {initial_simplex[1],
                                             <<Centroid(initial_simplex),
                                               Objective(entry, f, Centroid(initial_simplex))>>})
    /\ [][\/ /\ pc = "loop" /\ i < max_iter
              /\ pc' = "loop" /\ i' = i + 1 /\ branch' # "new_simplex"
           \/ /\ pc = "loop" /\ i = max_iter
              /\ pc' = "done" /\ i' = i /\ curr_simplex' = curr_simplex]_vars

C2_Witness == Done /\ max_iter = MaxIter /\ i = MaxIter /\ branch = "shrink"

\* C3: simplex::minimize returns the centroid of the N best vertices of the
\* final simplex when its value is not greater than the best vertex's, and the
\* best vertex otherwise; the value returned is the objective at the point
\* returned, and is not greater than the best vertex's value.
C3_BestOfVertexAndCentroid ==
    Done =>
        LET x1  == curr_simplex[1][1]
            fx1 == curr_simplex[1][2]
            n   == Len(curr_simplex) - 1
            x0  == [j \in 1..Len(x1) |->
                       SumCoords([k \in 1..n |-> curr_simplex[k][1][j]], 1) \div n]
            fx0 == Objective(entry, f, x0)
        IN  /\ fx0 <= fx1 => minimized = <<x0, fx0>>
            /\ fx0 > fx1 => minimized = <<x1, fx1>>
            /\ minimized[2] = Objective(entry, f, minimized[1])
            /\ minimized[2] <= fx1

\* A run whose centroid is strictly better than its best vertex, after a step.
C3_Witness ==
    /\ Done /\ Stepped /\ Len(curr_simplex) = 3
    /\ minimized[2] < curr_simplex[1][2]
    /\ minimized[1] # curr_simplex[1][1]

\* The objective g(x) = -f(x), as an objective of its own.
Negation(fn) ==
    CASE fn = "linear"      -> "neg_linear"
      [] fn = "shifted"     -> "neg_shifted"
      [] fn = "ripple"      -> "neg_ripple"

\* C4: maximize(f) is minimize of g = -f with the sign of the value flipped
\* back: from the same initial simplex points, with the same params, bounds and
\* max_iter, every iteration of maximize(f) is the step that minimising g takes,
\* the point returned is the one minimising g returns and the value is -g(x);
\* that value is f at the point returned, and neither a vertex of the initial or
\* the final simplex nor the final centroid has a higher f.
C4_MaximizeIsNegatedMinimize ==
    entry = "maximize" =>
        LET g == Negation(f)
        IN  /\ \A k \in 1..Len(initial_simplex) :
                   initial_simplex[k][2] = F(g, initial_simplex[k][1])
            /\ Stepped =>
                   curr_simplex = step("minimize", g, prev_simplex, params, as_vec(bounds))
            /\ Done =>
                   LET ret == minimize_result("minimize", g, curr_simplex)
                   IN  /\ result[1] = ret[1]
                       /\ result[2] = 0 - ret[2]
                       /\ result[2] = F(f, result[1])
                       /\ \A k \in 1..Len(curr_simplex) :
                              F(f, curr_simplex[k][1]) <= result[2]
                       /\ \A k \in 1..Len(initial_simplex) :
                              F(f, initial_simplex[k][1]) <= result[2]
                       /\ F(f, Centroid(curr_simplex)) <= result[2]

C4_Witness ==
    /\ Done /\ entry = "maximize" /\ i = MaxIter
    /\ result[2] # 0 /\ result[2] > F(f, initial_simplex[1][1])

\* C5: in every state of the loop the simplex is sorted ascending by value.
C5_SimplexSorted ==
    \A k \in 1..(Len(curr_simplex) - 1) : curr_simplex[k][2] <= curr_simplex[k + 1][2]

\* A simplex of distinct values after a shrink that follows another step.
C5_Witness ==
    /\ branch = "shrink" /\ i >= 2 /\ Len(curr_simplex) = 3
    /\ curr_simplex[1][2] < curr_simplex[2][2]
    /\ curr_simplex[2][2] < curr_simplex[3][2]
    /\ Points(curr_simplex) # Points(prev_simplex)

\* C6: step takes the first branch, in the order reflection, expansion,
\* contraction, shrink, whose condition holds, and accepts the reflected point,
\* the expanded point when fe < fr and else the reflected one, the contracted
\* point, or none (shrink).
C6_BranchPriority ==
    Stepped =>
        LET s    == prev_simplex
            n    == Len(s) - 1
            bv   == as_vec(bounds)
            xr   == Reflected(s, params, bv)
            xe   == Expanded(s, params, bv)
            xc   == Contracted(s, params, bv)
            fr   == Objective(entry, f, xr)
            fe   == Objective(entry, f, xe)
            fc   == Objective(entry, f, xc)
            fb   == s[1][2]
            fsw  == s[n][2]
            fw   == s[n + 1][2]
            c1   == fb <= fr /\ fr < fsw
            c2   == fe < fw
            c3   == fc < fw
        IN  /\ c1 => branch = "reflection" /\ accepted = xr
            /\ (~c1 /\ c2) => /\ branch = "expansion"
                              /\ accepted = IF fe < fr THEN xe ELSE xr
            /\ (~c1 /\ ~c2 /\ c3) => branch = "contraction" /\ accepted = xc
            /\ (~c1 /\ ~c2 /\ ~c3) => branch = "shrink" /\ accepted = <<>>
            /\ accepted # <<>> =>
                   \E k \in 1..(n + 1) :
                       curr_simplex[k] = <<accepted, Objective(entry, f, accepted)>>

\* The expansion branch falling back to the reflected point, with the
\* conditions of contraction holding as well.
C6_Witness ==
    /\ branch = "expansion"
    /\ accepted = Reflected(prev_simplex, params, as_vec(bounds))
    /\ accepted # Expanded(prev_simplex, params, as_vec(bounds))
    /\ Objective(entry, f, Contracted(prev_simplex, params, as_vec(bounds)))
           < prev_simplex[Len(prev_simplex)][2]

\* C7: a shrink keeps the best vertex, point and value, and replaces the other
\* N vertices by x_best + delta * (vertex_i - x_best), unclamped, each with the
\* objective at that point; the result has N + 1 vertices and is sorted.
C7_ShrinkRebuilds ==
    branch = "shrink" =>
        LET s   == prev_simplex
            x1  == s[1][1]
            new == [k \in 2..Len(s) |->
                       [j \in 1..Len(x1) |->
                           x1[j] + (params.delta[1] * (s[k][1][j] - x1[j])) \div params.delta[2]]]
            exp == [k \in 1..Len(s) |->
                       IF k = 1 THEN s[1] ELSE <<new[k], Objective(entry, f, new[k])>>]
        IN  /\ Len(curr_simplex) = Len(s)
            /\ Vertices(curr_simplex) = Vertices(exp)
            /\ \A k \in 1..(Len(s) - 1) : curr_simplex[k][2] <= curr_simplex[k + 1][2]

\* A shrink that moves a vertex to a point outside the bounds.
C7_Witness ==
    /\ branch = "shrink"
    /\ \A k \in 1..Len(prev_simplex) : WithinBounds(prev_simplex[k][1], bounds)
    /\ \E k \in 1..Len(curr_simplex) : ~WithinBounds(curr_simplex[k][1], bounds)

\* C8: a step never makes the best value worse, and the value simplex::minimize
\* returns is not greater than the value of any vertex of the initial simplex.
C8_BestNeverWorse ==
    /\ Stepped => curr_simplex[1][2] <= prev_simplex[1][2]
    /\ curr_simplex[1][2] <= initial_simplex[1][2]
    /\ Done => \A k \in 1..Len(initial_simplex) : minimized[2] <= initial_simplex[k][2]

\* A run of MaxIter steps whose last step improves a best value that an
\* earlier step had improved already.
C8_Witness ==
    /\ Done /\ i = MaxIter
    /\ curr_simplex[1][2] < prev_simplex[1][2]
    /\ prev_simplex[1][2] < initial_simplex[1][2]

C10_WorstReplaced ==
    branch \in {"reflection", "expansion", "contraction"} =>
        LET s   == prev_simplex
            n   == Len(s) - 1
            new == <<accepted, Objective(entry, f, accepted)>>
        IN  /\ new[2] < s[n + 1][2]
            /\ Len(curr_simplex) = n + 1
            /\ Vertices(curr_simplex) = Vertices(Append(SubSeq(s, 1, n), new))

\* The accepted point ties with a kept vertex, and the worst value is shared.
C10_Witness ==
    /\ branch \in {"reflection", "expansion", "contraction"}
    /\ Len(prev_simplex) = 3
    /\ prev_simplex[2][2] = prev_simplex[3][2]
    /\ prev_simplex[2][1] # prev_simplex[3][1]

\* Fidelity of the grid: after i iterations every coordinate of the simplex is
\* a multiple of Scale / 4^i, so that no division of the next iteration (by the
\* number of centroid points, by the denominator of a parameter) leaves a
\* remainder.
ArithmeticExact ==
    \A k \in 1..Len(curr_simplex) : \A j \in 1..Len(curr_simplex[k][1]) :
        curr_simplex[k][1][j] % (Scale \div (4 ^ i)) = 0

====
